---- MODULE Spec2Model ----
(***************************************************************************)
(* Model of the app-review analysis pipeline:                              *)
(*   data_processing.py    clean_text, load_reviews, process_reviews       *)
(*   api_main.py           POST /collect, /extract, /process,              *)
(*                         /visualization/{app_id}, /sunburst/{app_id}     *)
(*   extract_info.py       analyze_app, save_reviews_to_file               *)
(*   advanced_insights.py  transformer_sentiment, apply_sentiment,         *)
(*                         sentiment_metrics, keyword_extraction,          *)
(*                         build_sunburst, generate_insights, main         *)
(*   metrics_visualization.py  calculate_metrics                           *)
(* Text is a sequence of one-character strings.  A Python value is a       *)
(* record [t |-> type tag, v |-> sequence of characters].                  *)
(***************************************************************************)
EXTENDS Integers, Sequences, FiniteSets, TLC

VARIABLES
    text,        \* argument handed to clean_text
    cleaned,     \* outcome of clean_text(text)
    recleaned,   \* outcome of clean_text(clean_text(text))
    raw,         \* data/raw/<country>/app_<id>_reviews_<country>.json, per country
    proc,        \* outcome of the last process_reviews(app_id)
    skipped,     \* records the last process_reviews skipped and logged
    http,        \* status of the last POST /process response, 0 before any
    processed,   \* data/processed/<id>/cleaned_<id>.json
    texts,       \* the cleaned_content column of the DataFrame
    classifier,  \* the sentiment model: its raw result for each text
    batch_size,  \* texts per classifier call
    batch_start, \* transformer_sentiment: i, the start of the next batch
    all_results, \* transformer_sentiment: results collected so far
    spc,         \* where the sentiment run stands
    sentiment,   \* the sentiment column
    sentiment_score, \* the sentiment_score column
    metrics,     \* result of sentiment_metrics
    corpus,      \* a list of labelled, rated reviews
    permuted,    \* the same reviews in another order
    rating_metrics,          \* outcome of calculate_metrics(corpus)
    rating_metrics_permuted, \* outcome of calculate_metrics(permuted)
    sent_agg,                \* sentiment aggregation of corpus
    sent_agg_permuted,       \* sentiment aggregation of permuted
    keywords,    \* keyword buckets: for each label a list of <<word, score>>
    kw_calls,    \* the calls of kw_model.extract_keywords made so far
    insights,    \* result of generate_insights
    nodes,       \* build_sunburst: the labels, parents and values lists
    html_file,   \* advanced_sentiment_sunburst.html
    json_file,   \* advanced_nlp_insights.json
    done,        \* steps of main completed after sentiment_metrics
    backups,     \* data/raw/<country>/app_<id>_reviews_<country>_backup_<time>.json
    ratings_html,    \* data/metrics/<id>/ratings_distribution.html
    metrics_summary, \* data/metrics/<id>/metrics_summary.json and .csv
    sunburst_html,   \* data/advanced_nlp/<id>/advanced_sentiment_sunburst.html
    insights_json,   \* data/advanced_nlp/<id>/advanced_nlp_insights.json
    response,    \* the last request of the API and its response
    requests     \* number of requests served

textVars == <<text, cleaned, recleaned>>
loadVars == <<raw, proc, skipped, http, processed>>
sentVars == <<texts, classifier, batch_size, batch_start, all_results, spc, sentiment,
              sentiment_score, metrics>>
aggVars == <<corpus, permuted, rating_metrics, rating_metrics_permuted, sent_agg,
             sent_agg_permuted>>
mainVars == <<keywords, kw_calls, insights, nodes, html_file, json_file, done>>
apiVars == <<backups, ratings_html, metrics_summary, sunburst_html, insights_json,
             response, requests>>
vars == <<textVars, loadVars, sentVars, aggVars, mainVars, apiVars>>

----------------------------------------------------------------------------
(* Bounds of the model *)

MaxPieces == 4
MaxReviews == 2
MaxRows == 3
MaxBatch == 2
MaxTotal == 32
MaxCorpus == 3
MaxCount == 2
MaxRequests == 6
MaxBackups == 1

----------------------------------------------------------------------------
(* Python values *)

PyStr(s) == [t |-> "str", v |-> s]
PyNone == [t |-> "none", v |-> <<>>]
PyInt(digits) == [t |-> "int", v |-> digits]

\* bool(x) is False: None, "", 0
Falsy(x) ==
    \/ x.t = "none"
    \/ x.t = "str" /\ x.v = <<>>
    \/ x.t = "int" /\ x.v = <<"0">>

\* outcome of a call: a returned value, or the exception that left it
Returned(val) == [exc |-> "none", v |-> val]
Raised(e) == [exc |-> e, v |-> <<>>]
Unset == [exc |-> "unset", v |-> <<>>]

----------------------------------------------------------------------------
(* Characters *)

UpperSeq == <<"A","B","C","D","E","F","G","H","I","J","K","L","M",
              "N","O","P","Q","R","S","T","U","V","W","X","Y","Z">>
LowerSeq == <<"a","b","c","d","e","f","g","h","i","j","k","l","m",
              "n","o","p","q","r","s","t","u","v","w","x","y","z">>
Digits == {"0","1","2","3","4","5","6","7","8","9"}

Range(s) == {s[i] : i \in DOMAIN s}

\* \s
IsSpace(c) == c \in {" ", "\t", "\n"}
\* \w
IsWord(c) == c \in Range(UpperSeq) \cup Range(LowerSeq) \cup Digits \cup {"_"}

\* str.lower() on one character
LowerChar(c) ==
    IF c \in Range(UpperSeq)
    THEN LowerSeq[CHOOSE i \in DOMAIN UpperSeq : UpperSeq[i] = c]
    ELSE c

\* str.lower()
Lower(s) == [i \in 1..Len(s) |-> LowerChar(s[i])]

----------------------------------------------------------------------------
(* URL_PATTERN = https?://\S+|www\.\S+ *)

HasPrefix(s, i, p) ==
    /\ i + Len(p) - 1 <= Len(s)
    /\ SubSeq(s, i, i + Len(p) - 1) = p

\* index just after the run of non-whitespace characters that starts at i
RECURSIVE RunEnd(_, _)
RunEnd(s, i) ==
    IF i > Len(s) \/ IsSpace(s[i]) THEN i ELSE RunEnd(s, i + 1)

\* \S+ at i: index after the match, 0 when there is none
NonSpaceRun(s, i) == IF RunEnd(s, i) > i THEN RunEnd(s, i) ELSE 0

\* index just after a match of URL_PATTERN that starts at i, 0 when none
UrlMatchEnd(s, i) ==
    LET k == IF HasPrefix(s, i, <<"h","t","t","p","s">>) THEN i + 5 ELSE i + 4
        first == IF HasPrefix(s, i, <<"h","t","t","p">>)
                    /\ HasPrefix(s, k, <<":","/","/">>)
                 THEN NonSpaceRun(s, k + 3) ELSE 0
        second == IF HasPrefix(s, i, <<"w","w","w",".">>)
                  THEN NonSpaceRun(s, i + 4) ELSE 0
    IN  IF first > 0 THEN first ELSE second

\* URL_PATTERN.sub(" ", s), scanning from i
RECURSIVE UrlSubFrom(_, _)
UrlSubFrom(s, i) ==
    IF i > Len(s) THEN <<>>
    ELSE LET e == UrlMatchEnd(s, i)
         IN  IF e > 0 THEN <<" ">> \o UrlSubFrom(s, e)
             ELSE <<s[i]>> \o UrlSubFrom(s, i + 1)

UrlSub(s) == UrlSubFrom(s, 1)

\* NON_WORD_PATTERN.sub(" ", s) with NON_WORD_PATTERN = [^\w\s]
NonWordSub(s) ==
    [i \in 1..Len(s) |-> IF IsWord(s[i]) \/ IsSpace(s[i]) THEN s[i] ELSE " "]

\* index just after the run of whitespace characters that starts at i
RECURSIVE SpaceEnd(_, _)
SpaceEnd(s, i) ==
    IF i > Len(s) \/ ~IsSpace(s[i]) THEN i ELSE SpaceEnd(s, i + 1)

\* re.sub("\s+", " ", s)
RECURSIVE CollapseFrom(_, _)
CollapseFrom(s, i) ==
    IF i > Len(s) THEN <<>>
    ELSE IF IsSpace(s[i]) THEN <<" ">> \o CollapseFrom(s, SpaceEnd(s, i))
    ELSE <<s[i]>> \o CollapseFrom(s, i + 1)

CollapseWs(s) == CollapseFrom(s, 1)

\* str.strip()
RECURSIVE Strip(_)
Strip(s) ==
    IF s = <<>> THEN s
    ELSE IF IsSpace(s[1]) THEN Strip(Tail(s))
    ELSE IF IsSpace(s[Len(s)]) THEN Strip(SubSeq(s, 1, Len(s) - 1))
    ELSE s

\* str.split(): the maximal runs of non-whitespace characters, in order
RECURSIVE SplitFrom(_, _)
SplitFrom(s, i) ==
    IF i > Len(s) THEN <<>>
    ELSE IF IsSpace(s[i]) THEN SplitFrom(s, i + 1)
    ELSE <<SubSeq(s, i, RunEnd(s, i) - 1)>> \o SplitFrom(s, RunEnd(s, i))

Split(s) == SplitFrom(s, 1)

\* " ".join(tokens)
RECURSIVE Join(_)
Join(tokens) ==
    IF tokens = <<>> THEN <<>>
    ELSE IF Len(tokens) = 1 THEN tokens[1]
    ELSE tokens[1] \o <<" ">> \o Join(Tail(tokens))

STOPWORDS == {
    <<"a">>, <<"a","n">>, <<"t","h","e">>, <<"a","n","d">>, <<"o","r">>,
    <<"b","u","t">>, <<"i","f">>, <<"i","n">>, <<"o","n">>, <<"a","t">>,
    <<"t","o">>, <<"f","o","r">>, <<"o","f">>,
    <<"i","s">>, <<"i","t">>, <<"b","e">>, <<"a","s">>, <<"b","y">>,
    <<"t","h","i","s">>, <<"t","h","a","t">>, <<"w","i","t","h">>,
    <<"f","r","o","m">>, <<"a","r","e">>, <<"w","a","s">>,
    <<"w","e","r","e">>, <<"s","o">>,
    <<"w","e">>, <<"h","e">>, <<"s","h","e">>, <<"t","h","e","y">>,
    <<"y","o","u">>, <<"i">>, <<"m","e">>, <<"m","y">>, <<"o","u","r">>,
    <<"y","o","u","r">>, <<"t","h","e","i","r">> }

\* [tok for tok in tokens if tok not in STOPWORDS]
NotStopword(tok) == tok \notin STOPWORDS
RemoveStopwords(tokens) == SelectSeq(tokens, NotStopword)

\* clean_text with the steps in another order: stopwords dropped before
\* URLs and punctuation are stripped
CleanStrStopwordsFirst(s) ==
    Strip(CollapseWs(NonWordSub(UrlSub(Join(RemoveStopwords(Split(Lower(s))))))))

\* clean_text with punctuation stripped before URLs
CleanStrPunctFirst(s) ==
    Join(RemoveStopwords(Split(Strip(CollapseWs(UrlSub(NonWordSub(Lower(s))))))))

\* clean_text that forgets to lowercase
CleanStrNoLower(s) ==
    Join(RemoveStopwords(Split(Strip(CollapseWs(NonWordSub(UrlSub(s)))))))

\* body of clean_text for a non-empty str
CleanStr(s) ==
    Join(RemoveStopwords(Split(Strip(CollapseWs(NonWordSub(UrlSub(Lower(s))))))))

\* clean_text(x): "" for a falsy argument; x.lower() raises AttributeError
\* for a truthy argument that is not a str
clean_text(x) ==
    IF Falsy(x) THEN Returned(<<>>)
    ELSE IF x.t # "str" THEN Raised("AttributeError")
    ELSE Returned(CleanStr(x.v))

----------------------------------------------------------------------------
(* Raw review files *)

Countries == {"us", "gb"}

\* a key the JSON object does not have
Missing == [t |-> "missing", v |-> <<>>]

\* dict.get(key): None for a key that is missing
Get(val) == IF val.t = "missing" THEN PyNone ELSE val
\* dict.get(key, default)
GetOr(val, default) == IF val.t = "missing" THEN default ELSE val

\* one element of a "reviews" list: a JSON object with some of the keys
\* id, rating, title, content, or a JSON value that is no object
Dict(id, rating, title, content) ==
    [kind |-> "dict", id |-> id, rating |-> rating, title |-> title, content |-> content]
NonDict(kind) ==
    [kind |-> kind, id |-> Missing, rating |-> Missing, title |-> Missing, content |-> Missing]

Records == {
    Dict(PyStr(<<"1">>), PyInt(<<"5">>), PyStr(<<"G","r","e","a","t","!">>),
         PyStr(<<"A"," ","x">>)),
    Dict(PyStr(<<"2">>), Missing, Missing, PyNone),
    Dict(PyStr(<<"3">>), PyInt(<<"1">>), PyInt(<<"7">>), PyStr(<<"x">>)),
    NonDict("str") }

RECURSIVE ListsOf(_, _)
ListsOf(S, n) ==
    IF n = 0 THEN {<<>>}
    ELSE LET shorter == ListsOf(S, n - 1)
         IN  shorter \cup {<<x>> \o l : x \in S, l \in {l \in shorter : Len(l) = n - 1}}

\* what a raw file path holds.  kind: "absent" (no such file), "unreadable"
\* (open raises OSError), "badjson" (not JSON), "list" (JSON, top level an
\* array), "object" (JSON, top level an object).  For an object, rv is the
\* type of its "reviews" value ("missing" when it has none) and items the
\* elements when that value is a list.
File(kind, rv, items) == [kind |-> kind, rv |-> rv, items |-> items]

FileContents ==
    {File(k, "na", <<>>) : k \in {"absent", "unreadable", "badjson", "list"}}
    \cup {File("object", rv, <<>>) : rv \in {"missing", "int", "none"}}
    \cup {File("object", "list", l) : l \in ListsOf(Records, MaxReviews)}

----------------------------------------------------------------------------
(* data_processing.load_reviews and process_reviews *)

\* json.load(f).get("reviews", []) under try/except (JSONDecodeError, OSError):
\* the returned value (t its type, items its elements), or the exception
load_reviews(file) ==
    CASE file.kind \in {"unreadable", "badjson"} ->
            [exc |-> "none", t |-> "list", items |-> <<>>]
      [] file.kind = "list" ->
            [exc |-> "AttributeError", t |-> "na", items |-> <<>>]
      [] file.kind = "object" /\ file.rv = "missing" ->
            [exc |-> "none", t |-> "list", items |-> <<>>]
      [] OTHER ->
            [exc |-> "none", t |-> file.rv, items |-> file.items]

cleaned_entry(review, country) ==
    [id |-> Get(review.id), country |-> country, rating |-> Get(review.rating),
     title |-> GetOr(review.title, PyStr(<<>>)),
     content |-> GetOr(review.content, PyStr(<<>>)),
     cleaned_title |-> clean_text(GetOr(review.title, PyStr(<<>>))).v,
     cleaned_content |-> clean_text(GetOr(review.content, PyStr(<<>>))).v]

\* the try/except around one review: the entries appended, the records
\* skipped, the exception that escapes.  For a review that is no dict,
\* review.get raises AttributeError and so does the review.get('id') of the
\* except clause's print, which nothing catches.
process_one(review, country) ==
    IF review.kind # "dict"
    THEN [exc |-> "AttributeError", entries |-> <<>>, skipped |-> 0]
    ELSE IF \/ clean_text(GetOr(review.title, PyStr(<<>>))).exc # "none"
            \/ clean_text(GetOr(review.content, PyStr(<<>>))).exc # "none"
    THEN [exc |-> "none", entries |-> <<>>, skipped |-> 1]
    ELSE [exc |-> "none", entries |-> <<cleaned_entry(review, country)>>, skipped |-> 0]

\* then(a, b): the outcome of a followed by b, b not run when a raised
Then(a, b) ==
    IF a.exc # "none" THEN a
    ELSE [exc |-> b.exc, entries |-> a.entries \o b.entries,
          skipped |-> a.skipped + b.skipped]

Nothing == [exc |-> "none", entries |-> <<>>, skipped |-> 0]

\* for review in reviews: ...
RECURSIVE process_list(_, _)
process_list(reviews, country) ==
    IF reviews = <<>> THEN Nothing
    ELSE Then(process_one(Head(reviews), country), process_list(Tail(reviews), country))

\* the body of the loop over files, for one file
process_file(file, country) ==
    LET loaded == load_reviews(file)
    IN  IF loaded.exc # "none"
        THEN [exc |-> loaded.exc, entries |-> <<>>, skipped |-> 0]
        ELSE IF loaded.t # "list"
        THEN [exc |-> "TypeError", entries |-> <<>>, skipped |-> 0]
        ELSE process_list(loaded.items, country)

\* for file_path in files: ...   (files: the countries, in glob's order)
RECURSIVE process_files(_, _)
process_files(files, disk) ==
    IF files = <<>> THEN Nothing
    ELSE Then(process_file(disk[Head(files)], Head(files)),
              process_files(Tail(files), disk))

\* glob.glob(pattern): the files that exist, in an order glob does not fix
OrdersOf(S) ==
    {f \in [1..Cardinality(S) -> S] : \A i, j \in DOMAIN f : f[i] = f[j] => i = j}
Globs(disk) == OrdersOf({c \in Countries : disk[c].kind # "absent"})

\* process_reviews(app_id) with glob giving files
process_reviews(files, disk) == process_files(files, disk)

----------------------------------------------------------------------------
(* advanced_insights: transformer_sentiment, apply_sentiment,              *)
(* sentiment_metrics                                                       *)

PyFloat(digits) == [t |-> "float", v |-> digits]

\* the program's batch size
CodeBatchSize == 32

BatchSizes == 1..MaxBatch \cup {CodeBatchSize}

\* cleaned_content values of the reviews
TextPool == {<<"g","o","o","d">>, <<"c","r","a","s","h">>}

\* what the classifier may return for one text: {"label": ..., "score": ...}
Result(label, score) == [label |-> label, score |-> score]

RawResults == {
    Result(<<"p","o","s","i","t","i","v","e">>, PyFloat(<<"0",".","9","8">>)),
    Result(<<"P","o","s","i","t","i","v","e">>, PyInt(<<"1">>)),
    Result(<<"N","E","U","T","R","A","L">>, PyFloat(<<"0",".","5">>)),
    Result(<<"n","e","u","t","r","a","l">>, PyNone),
    Result(<<"n","e","g","a","t","i","v","e">>, PyFloat(<<"0",".","7">>)),
    Result(<<"L","A","B","E","L","_","2">>, PyStr(<<"0",".","9">>)),
    Result(<<"p","o","s">>, PyFloat(<<"0",".","6">>)) }

\* sent_pipe(batch): one result per text of the batch, in order
sent_pipe(batch) == [k \in 1..Len(batch) |-> classifier[batch[k]]]

Min(a, b) == IF a < b THEN a ELSE b

\* texts[i : i + batch_size] with an off-by-one end
BatchShort(seq, start, size) ==
    SubSeq(seq, start + 1, Min(start + size - 1, Len(seq)))

\* texts[i : i + batch_size], i counted from 0
Batch(seq, start, size) == SubSeq(seq, start + 1, Min(start + size, Len(seq)))

\* the label mapping without .lower()
MapLabelCaseSensitive(label) ==
    IF label = <<"n","e","u","t","r","a","l">> THEN "neutral"
    ELSE IF label = <<"p","o","s","i","t","i","v","e">> THEN "positive"
    ELSE "negative"

\* label = r["label"].lower(); neutral / positive / else negative
MapLabel(label) ==
    IF Lower(label) = <<"n","e","u","t","r","a","l">> THEN "neutral"
    ELSE IF Lower(label) = <<"p","o","s","i","t","i","v","e">> THEN "positive"
    ELSE "negative"

Zero == PyFloat(<<"0",".","0">>)

\* r["score"] if isinstance(r["score"], float) else 0.0
MapScore(score) == IF score.t = "float" THEN score ELSE Zero

\* Series.value_counts() that counts each label once
value_counts_unique(column) == [l \in Range(column) |-> 1]

\* Series.value_counts().to_dict(): the labels that occur, each with the
\* number of rows that carry it
value_counts(column) ==
    [l \in Range(column) |-> Cardinality({k \in DOMAIN column : column[k] = l})]

\* 100 * v / total cut to two decimals instead of rounded
PercentageFloor(v, total) == (10000 * v) \div total

\* round(100 * v / total, 2), in hundredths of a percent; Python rounds a
\* tie to the even neighbour
Percentage(v, total) ==
    LET f == (10000 * v) \div total
        r == (10000 * v) % total
    IN  IF 2 * r < total THEN f
        ELSE IF 2 * r > total THEN f + 1
        ELSE IF f % 2 = 0 THEN f ELSE f + 1

NoMetrics == [total_reviews |-> -1, counts |-> <<>>, percentages |-> <<>>]

\* sentiment_metrics(df): total_reviews, counts and percentages
sentiment_metrics(column) ==
    LET total == Len(column)
        counts == value_counts(column)
    IN  [total_reviews |-> total,
         counts |-> counts,
         percentages |-> [l \in DOMAIN counts |-> Percentage(counts[l], total)]]

----------------------------------------------------------------------------
(* metrics_visualization.calculate_metrics, and the rows of a labelled frame *)

RATING_RANGE == 1..5

\* the labels in the order keyword_extraction and build_sunburst visit them
SentimentOrder == <<"positive", "negative", "neutral">>

\* a rating value: t its Python type, n the value of an int and the value
\* in tenths of a float, finite FALSE for the float NaN
Rating(t, n, finite) == [t |-> t, n |-> n, finite |-> finite]

\* one review: the entry of the cleaned file and its row of the labelled frame
Review(id, rating, label) == [id |-> id, rating |-> rating, sentiment |-> label]

\* isinstance(r.get("rating"), (int, float))
IsNumeric(r) == r.rating.t \in {"int", "float"}

\* int(rev["rating"]) of a finite number: the fraction is cut off
IntOf(rating) ==
    IF rating.t = "int" THEN rating.n
    ELSE IF rating.n >= 0 THEN rating.n \div 10
    ELSE 0 - ((0 - rating.n) \div 10)

RECURSIVE Gcd(_, _)
Gcd(a, b) == IF b = 0 THEN a ELSE Gcd(b, a % b)

\* the quotient a / b, b > 0, as a fraction in lowest terms
Ratio(a, b) ==
    LET g == Gcd(IF a < 0 THEN 0 - a ELSE a, b)
    IN  [num |-> a \div g, den |-> b \div g]

RECURSIVE SumInts(_)
SumInts(ratings) ==
    IF ratings = <<>> THEN 0 ELSE IntOf(Head(ratings)) + SumInts(Tail(ratings))

\* the reviews before the first one without a numeric rating
RECURSIVE NumericPrefix(_)
NumericPrefix(reviews) ==
    IF reviews = <<>> \/ ~IsNumeric(Head(reviews)) THEN <<>>
    ELSE <<Head(reviews)>> \o NumericPrefix(Tail(reviews))

\* rating_counts, rating_sum and the average over the reviews in valid
RatingSummary(valid) ==
    LET ratings == [k \in DOMAIN valid |-> valid[k].rating]
        total == Len(valid)
    IN  IF \E k \in DOMAIN ratings : ~ratings[k].finite
        THEN Raised("ValueError")
        ELSE Returned([
            average_rating |-> IF total > 0 THEN Ratio(SumInts(ratings), total)
                               ELSE Ratio(0, 1),
            rating_counts |-> [r \in RATING_RANGE |->
                Cardinality({k \in DOMAIN ratings : IntOf(ratings[k]) = r})],
            total_reviews |-> total])

\* calculate_metrics that stops at the first review without a numeric rating
calculate_metrics_until_invalid(reviews) == RatingSummary(NumericPrefix(reviews))

\* calculate_metrics(reviews).  int() of NaN raises ValueError.
calculate_metrics(reviews) ==
    IF reviews = <<>>
    THEN Returned([average_rating |-> Ratio(0, 1),
                   rating_counts |-> [r \in RATING_RANGE |-> 0],
                   total_reviews |-> 0])
    ELSE RatingSummary(SelectSeq(reviews, IsNumeric))

\* df["sentiment"]
SentimentColumn(frame) == [k \in DOMAIN frame |-> frame[k].sentiment]

\* df.loc[df["sentiment"] == label]: the rows that carry the label, in order
RowsWith(frame, label) == SelectSeq(frame, LAMBDA r : r.sentiment = label)

\* sentiment_metrics(df) and the rows of every label
aggregate_sentiment(frame) ==
    Returned([metrics |-> sentiment_metrics(SentimentColumn(frame)),
              buckets |-> [l \in Range(SentimentOrder) |-> RowsWith(frame, l)]])

\* the reviews of a corpus: ratings 5 and 1, the rating 0 the scraper
\* stores for a review without one, a float, a string and NaN
RatedKinds == {
    <<Rating("int", 5, TRUE), "positive">>,
    <<Rating("int", 1, TRUE), "negative">>,
    <<Rating("int", 0, TRUE), "negative">>,
    <<Rating("float", 47, TRUE), "neutral">>,
    <<Rating("str", 5, TRUE), "positive">>,
    <<Rating("float", 0, FALSE), "neutral">> }

Corpora ==
    {[k \in DOMAIN l |-> Review(k, l[k][1], l[k][2])] : l \in ListsOf(RatedKinds, MaxCorpus)}

\* the orders a list can be put in
PermutationsOf(seq) == {[k \in DOMAIN seq |-> seq[f[k]]] : f \in OrdersOf(DOMAIN seq)}

----------------------------------------------------------------------------
(* advanced_insights: build_sunburst and generate_insights *)

\* a keyword with its score, the score in units of 0.00001
Keyword(word, score) == <<word, score>>

\* keywords.get(label, [])
KwGet(kws, label) == IF label \in DOMAIN kws THEN kws[label] ELSE <<>>

\* the slice cut one element later
TakeOneMore(seq, n) == SubSeq(seq, 1, Min(n + 1, Len(seq)))

\* seq[:n]
Take(seq, n) == SubSeq(seq, 1, Min(n, Len(seq)))

\* the most keywords of a bucket that are charted or searched
KeywordCap == 50

\* the characters of a label
LabelText(label) ==
    CASE label = "positive" -> <<"p","o","s","i","t","i","v","e">>
      [] label = "negative" -> <<"n","e","g","a","t","i","v","e">>
      [] label = "neutral" -> <<"n","e","u","t","r","a","l">>

UpperChar(c) ==
    IF \E i \in 1..26 : LowerSeq[i] = c
    THEN UpperSeq[CHOOSE i \in 1..26 : LowerSeq[i] = c]
    ELSE c

\* str.capitalize(): the first character upper case, the rest lower case
Capitalize(s) ==
    [i \in 1..Len(s) |-> IF i = 1 THEN UpperChar(s[i]) ELSE LowerChar(s[i])]

RootLabel == <<"R","e","v","i","e","w","s">>

\* one entry of labels, parents and values; value in hundredths
Node(label, parent, value) == [label |-> label, parent |-> parent, value |-> value]

\* round(score * 100, 2) in hundredths; the scores of the model avoid ties
Round2(score) == (score + 5) \div 10

\* metrics["counts"].get(label, 0)
CountOf(m, label) == IF label \in DOMAIN m.counts THEN m.counts[label] ELSE 0

\* the inner loop of build_sunburst: the first KeywordCap keywords of a bucket
KeywordNodes(kws, label) ==
    LET top == Take(KwGet(kws, label), KeywordCap)
    IN  [k \in DOMAIN top |->
            Node(top[k][1], Capitalize(LabelText(label)), Round2(top[k][2]))]

\* one round of the outer loop that does not skip a label without reviews
BucketNodesKeepEmpty(m, kws, label) ==
    <<Node(Capitalize(LabelText(label)), RootLabel, 100 * CountOf(m, label))>>
        \o KeywordNodes(kws, label)

\* one round of the outer loop of build_sunburst
BucketNodes(m, kws, label) ==
    IF CountOf(m, label) = 0 THEN <<>>
    ELSE <<Node(Capitalize(LabelText(label)), RootLabel, 100 * CountOf(m, label))>>
             \o KeywordNodes(kws, label)

\* build_sunburst(df, metrics, keywords, app_id): the lists handed to px.sunburst
build_sunburst(m, kws) ==
    <<Node(RootLabel, <<>>, 100 * m.total_reviews)>>
        \o BucketNodes(m, kws, SentimentOrder[1])
        \o BucketNodes(m, kws, SentimentOrder[2])
        \o BucketNodes(m, kws, SentimentOrder[3])

\* a rule of generate_insights: its trigger words and its message
Rule(triggers, message) == [triggers |-> triggers, message |-> message]

PricingRule == Rule(
    <<<<"p","r","i","c","e">>,
      <<"s","u","b","s","c","r","i","p","t","i","o","n">>,
      <<"p","a","y">>>>,
    "Pricing concerns detected. Consider revisiting subscription plans or offering trials.")

StabilityRule == Rule(
    <<<<"b","u","g">>,
      <<"c","r","a","s","h">>,
      <<"e","r","r","o","r">>,
      <<"i","s","s","u","e">>>>,
    "Users report stability issues. Prioritize bug fixes and QA.")

AuthenticationRule == Rule(
    <<<<"l","o","g","i","n">>,
      <<"a","c","c","o","u","n","t">>,
      <<"s","i","g","n">>>>,
    "Login or account issues prevalent. Simplify authentication flow.")

AdvertisingRule == Rule(
    <<<<"a","d","s">>,
      <<"a","d","v","e","r","t">>>>,
    "Negative sentiment around ads. Evaluate frequency and placement of advertisements.")

PerformanceRule == Rule(
    <<<<"s","l","o","w">>,
      <<"l","a","g">>,
      <<"p","e","r","f","o","r","m","a","n","c","e">>>>,
    "Performance issues noted. Optimize app speed and responsiveness.")

StreamingRule == Rule(
    <<<<"y","o","u","t","u","b","e">>,
      <<"s","t","r","e","a","m","i","n","g">>,
      <<"v","i","d","e","o">>,
      <<"c","h","a","n","n","e","l">>>>,
    "Users compare the app with YouTube/other streaming platforms and question the subscription's value. Clearly communicate unique offerings, consider content diversification, and evaluate pricing tiers.")

\* the rules in the order generate_insights tries them
Rules == <<PricingRule, StabilityRule, AuthenticationRule, AdvertisingRule,
           PerformanceRule, StreamingRule>>

Fallback ==
    "Sentiment analysis did not highlight specific dominant issues. Continue monitoring."

\* neg_keywords: the words of the first KeywordCap negative keywords
NegKeywords(kws) ==
    LET top == Take(KwGet(kws, "negative"), KeywordCap)
    IN  [k \in DOMAIN top |-> top[k][1]]

\* p occurs in s as a substring
IsSubstring(p, s) == \E i \in 1..(Len(s) + 1) : HasPrefix(s, i, p)

\* a trigger occurs inside one of the words
AnyInSubstring(triggers, words) ==
    \E k \in DOMAIN triggers : \E w \in DOMAIN words : IsSubstring(triggers[k], words[w])

\* any(k in neg_keywords for k in [...]): list membership
AnyIn(triggers, words) ==
    \E k \in DOMAIN triggers : \E w \in DOMAIN words : words[w] = triggers[k]

\* generate_insights(keywords)
generate_insights(kws) ==
    LET fired == SelectSeq(Rules, LAMBDA r : AnyIn(r.triggers, NegKeywords(kws)))
    IN  IF fired = <<>> THEN <<Fallback>>
        ELSE [k \in DOMAIN fired |-> fired[k].message]

----------------------------------------------------------------------------
(* advanced_insights: keyword_extraction and main *)

\* df.loc[df["sentiment"] == label, "cleaned_content"].tolist()
RECURSIVE TextsWith(_, _, _)
TextsWith(tcol, scol, label) ==
    IF tcol = <<>> THEN <<>>
    ELSE (IF Head(scol) = label THEN <<Head(tcol)>> ELSE <<>>)
             \o TextsWith(Tail(tcol), Tail(scol), label)

\* what one call of kw_model.extract_keywords does: it returns keywords or raises
Extracted(kws) == [ok |-> TRUE, kws |-> kws]
ExtractFailed == [ok |-> FALSE, kws |-> <<>>]

\* one call of the capability: kw_model.extract_keywords(joined_text, ...)
Call(label, joined_text) == [label |-> label, text |-> joined_text]

\* keyword_extraction from the label at position i on; capability gives what
\* the call made for a label does
RECURSIVE ExtractFrom(_, _, _, _)
ExtractFrom(tcol, scol, capability, i) ==
    IF i > Len(SentimentOrder)
    THEN [exc |-> "none", keywords |-> <<>>, calls |-> <<>>]
    ELSE LET label == SentimentOrder[i]
             selected == TextsWith(tcol, scol, label)
             rest == ExtractFrom(tcol, scol, capability, i + 1)
             call == Call(label, Join(selected))
         IN  IF selected = <<>>
             THEN [rest EXCEPT !.keywords = (label :> <<>>) @@ rest.keywords]
             ELSE IF ~capability[label].ok
             THEN [exc |-> "ExtractorError", keywords |-> <<>>, calls |-> <<call>>]
             ELSE [exc |-> rest.exc,
                   keywords |-> (label :> capability[label].kws) @@ rest.keywords,
                   calls |-> <<call>> \o rest.calls]

\* keyword_extraction(df, top_n)
keyword_extraction(tcol, scol, capability) == ExtractFrom(tcol, scol, capability, 1)

\* main with the chart built before the keywords are extracted
MainStepsChartFirst ==
    <<"build_sunburst", "keyword_extraction", "generate_insights", "save_results">>

\* the calls of main after sentiment_metrics, in order
MainSteps ==
    <<"keyword_extraction", "generate_insights", "build_sunburst", "save_results">>

----------------------------------------------------------------------------
(* Arguments of keyword_extraction, build_sunburst and generate_insights *)

DigitSeq == <<"0","1","2","3","4","5","6","7","8","9">>

\* the k-th of a run of keywords no rule looks for
Filler(k) ==
    Keyword(<<"w", DigitSeq[(k \div 10) + 1], DigitSeq[(k % 10) + 1]>>, 50001 + 10 * k)

Fillers(n) == [k \in 1..n |-> Filler(k)]

Crash == <<"c","r","a","s","h">>
Login == <<"l","o","g","i","n">>
Price == <<"p","r","i","c","e">>

\* keyword buckets: none; two triggers; a phrase and a capitalised word that
\* contain a trigger, the second with a score that rounds to 0; triggers out
\* of rule order; a trigger as keyword 51; a trigger as keyword 50
KeywordBuckets == {
    <<>>,
    <<Keyword(Crash, 73456), Keyword(Login, 51234)>>,
    <<Keyword(<<"a","p","p"," ","c","r","a","s","h">>, 61237), Keyword(<<"C","r","a","s","h">>, 4)>>,
    <<Keyword(<<"s","l","o","w">>, 40002), Keyword(<<"a","d","s">>, 30003), Keyword(Price, 20004)>>,
    Fillers(KeywordCap) \o <<Keyword(Price, 10001)>>,
    Fillers(KeywordCap - 1) \o <<Keyword(<<"p","a","y">>, 10001)>> }

\* what the capability may do in a run of main
ExtractOutcomes == {
    Extracted(<<Keyword(Crash, 73456), Keyword(Login, 51234)>>),
    Extracted(<<>>),
    ExtractFailed }

\* cleaned_content values: the pool of texts and the empty text
MainTexts == TextPool \cup {<<>>}

\* classifier results, one for each label
MainResults == {
    Result(<<"p","o","s","i","t","i","v","e">>, PyFloat(<<"0",".","9","8">>)),
    Result(<<"N","E","U","T","R","A","L">>, PyFloat(<<"0",".","5">>)),
    Result(<<"n","e","g","a","t","i","v","e">>, PyFloat(<<"0",".","7">>)) }

----------------------------------------------------------------------------
(* What the App Store serves for a country *)

\* reviews that carry a rating and no text
ReviewA == Dict(PyStr(<<"1">>), PyInt(<<"5">>), PyStr(<<>>), PyStr(<<>>))
ReviewB == Dict(PyStr(<<"2">>), PyInt(<<"1">>), Missing, PyNone)

\* the reviews of an app at an earlier and at a later time
Feeds == {<<ReviewA>>, <<ReviewA, ReviewB>>}

----------------------------------------------------------------------------
(* api_main and extract_info: the raw directory and the generated files *)

\* the JSON object _collect_raw and save_reviews_to_file dump: its "reviews"
\* value is the list of collected reviews
RawFile(items) == File("object", "list", items)

\* a file the pattern data/raw/*/app_<id>_reviews_*.json matches: k = 0 is
\* app_<id>_reviews_<country>.json, k > 0 the k-th backup of the directory
Path(country, k) == [country |-> country, k |-> k]

StoredPaths(main, bk) ==
    {Path(c, 0) : c \in {c \in Countries : main[c].kind # "absent"}}
    \cup UNION {{Path(c, k) : k \in 1..Len(bk[c])} : c \in Countries}

FileAt(main, bk, path) ==
    IF path.k = 0 THEN main[path.country] ELSE bk[path.country][path.k]

\* the sequences that list every element of S once
RECURSIVE ListingsOf(_)
ListingsOf(S) ==
    IF S = {} THEN {<<>>}
    ELSE UNION {{<<x>> \o l : l \in ListingsOf(S \ {x})} : x \in S}

\* glob.glob(pattern) over the raw directory, in an order glob does not fix
GlobPaths(main, bk) == ListingsOf(StoredPaths(main, bk))

\* for file_path in files: ...   over the files of the raw directory
RECURSIVE process_paths(_, _, _)
process_paths(paths, main, bk) ==
    IF paths = <<>> THEN Nothing
    ELSE Then(process_file(FileAt(main, bk, Head(paths)), Head(paths).country),
              process_paths(Tail(paths), main, bk))

\* save_reviews_to_file: an existing file is renamed to a backup first
BackedUp(main, bk, country) ==
    IF main[country].kind # "absent"
    THEN [bk EXCEPT ![country] = Append(@, main[country])]
    ELSE bk

\* calculate_statistics(reviews)["total_reviews"] > 0: some review has a
\* numeric rating from 1 to 5
HasValidRating(items) ==
    \E k \in DOMAIN items :
        /\ items[k].rating.t = "int"
        /\ items[k].rating.v \in {<<"1">>, <<"2">>, <<"3">>, <<"4">>, <<"5">>}

\* the value of a one-digit integer
DigitValue(digits) == CHOOSE d \in 0..9 : DigitSeq[d + 1] = digits[1]

\* an entry of the cleaned file as calculate_metrics reads it
RatedEntry(entry) ==
    [id |-> entry.id,
     rating |-> IF entry.rating.t = "int"
                THEN Rating("int", DigitValue(entry.rating.v), TRUE)
                ELSE Rating(entry.rating.t, 0, TRUE)]

\* load_cleaned_reviews(path), then calculate_metrics(reviews)
MetricsOf(entries) ==
    calculate_metrics([k \in DOMAIN entries |-> RatedEntry(entries[k])])

\* what of the sunburst chart and the insights depends on the frame alone:
\* the weight of the root, len(df)
SunburstOf(entries) == [total_reviews |-> Len(entries)]

StoredFile(content) == [exists |-> TRUE, content |-> content]

Response(req, status, body) == [req |-> req, status |-> status, body |-> body]

----------------------------------------------------------------------------
(* Arguments of clean_text: every concatenation of at most MaxPieces pieces, *)
(* the absent value, and some whole sentences                               *)

Pieces == {
    <<"h","t","t","p">>, <<"s">>, <<":","/","/">>, <<"w","w","w",".">>,
    <<" ">>, <<"A">>, <<"x">>, <<"!">> }

RECURSIVE Concats(_)
Concats(n) ==
    IF n = 0 THEN {<<>>}
    ELSE LET shorter == Concats(n - 1)
         IN  shorter \cup {p \o s : p \in Pieces, s \in shorter}

ScenarioText ==
    <<"G","r","e","a","t"," ","a","p","p","!","!"," ","V","i","s","i","t"," ",
      "h","t","t","p","s",":","/","/","x",".","c","o","m"," ","n","o","w">>
ScenarioClean ==
    <<"g","r","e","a","t"," ","a","p","p"," ","v","i","s","i","t"," ",
      "n","o","w">>

Samples == {
    ScenarioText,
    <<"f","t","p",":","/","/","x",".","c","o","m">>,
    <<"T","h","e","\t","\n","U","I","_","2"," ","i","s"," ","O","K","."," ">>,
    <<"s","e","e"," ","W","W","W",".","x",".","i","o","/","a","?","b"," ","i","t">> }

TextInputs == {PyStr(s) : s \in Concats(MaxPieces) \cup Samples} \cup {PyNone}

----------------------------------------------------------------------------
(* The state before anything has run *)

Absent == [exists |-> FALSE, entries |-> <<>>]
Saved(entries) == [exists |-> TRUE, entries |-> entries]

TextIdle ==
    /\ text = PyNone
    /\ cleaned = Unset
    /\ recleaned = Unset

LoadIdle ==
    /\ raw = [c \in Countries |-> File("absent", "na", <<>>)]
    /\ proc = Unset
    /\ skipped = 0
    /\ http = 0
    /\ processed = Absent

SentIdle ==
    /\ texts = <<>>
    /\ classifier = <<>>
    /\ batch_size = CodeBatchSize
    /\ batch_start = 0
    /\ all_results = <<>>
    /\ spc = "idle"
    /\ sentiment = <<>>
    /\ sentiment_score = <<>>
    /\ metrics = NoMetrics

AggIdle ==
    /\ corpus = <<>>
    /\ permuted = <<>>
    /\ rating_metrics = Unset
    /\ rating_metrics_permuted = Unset
    /\ sent_agg = Unset
    /\ sent_agg_permuted = Unset

MainIdle ==
    /\ keywords = <<>>
    /\ kw_calls = <<>>
    /\ insights = <<>>
    /\ nodes = <<>>
    /\ html_file = "absent"
    /\ json_file = "absent"
    /\ done = 0

NoFile == [exists |-> FALSE, content |-> <<>>]
NoResponse == [req |-> "none", status |-> 0, body |-> <<>>]

ApiIdle ==
    /\ backups = [c \in Countries |-> <<>>]
    /\ ratings_html = NoFile
    /\ metrics_summary = NoFile
    /\ sunburst_html = NoFile
    /\ insights_json = NoFile
    /\ response = NoResponse
    /\ requests = 0

----------------------------------------------------------------------------
(* Text normalisation as a state machine *)

InitText ==
    /\ text \in TextInputs
    /\ cleaned = Unset
    /\ recleaned = Unset
    /\ LoadIdle
    /\ SentIdle
    /\ AggIdle
    /\ MainIdle
    /\ ApiIdle

\* cleaned = clean_text(text)
CleanText ==
    /\ cleaned = Unset
    /\ cleaned' = clean_text(text)
    /\ UNCHANGED <<text, recleaned, loadVars, sentVars, aggVars, mainVars, apiVars>>

\* recleaned = clean_text(cleaned)
CleanAgain ==
    /\ cleaned.exc = "none"
    /\ recleaned = Unset
    /\ recleaned' = clean_text(PyStr(cleaned.v))
    /\ UNCHANGED <<text, cleaned, loadVars, sentVars, aggVars, mainVars, apiVars>>

NextText == CleanText \/ CleanAgain

SpecText == InitText /\ [][NextText]_vars

----------------------------------------------------------------------------
(* api_main.process_reviews_endpoint, POST /process *)

InitLoad ==
    /\ raw \in [Countries -> FileContents]
    /\ proc = Unset
    /\ skipped = 0
    /\ http = 0
    /\ processed = Absent
    /\ TextIdle
    /\ SentIdle
    /\ AggIdle
    /\ MainIdle
    /\ ApiIdle

\* the status of the response: 404 for an empty result, 500 when
\* process_reviews raised, else the cleaned file is saved and returned
process_reviews_endpoint ==
    /\ http = 0
    /\ \E files \in Globs(raw) :
         LET res == process_reviews(files, raw)
         IN  /\ proc' = IF res.exc = "none" THEN Returned(res.entries) ELSE Raised(res.exc)
             /\ skipped' = res.skipped
             /\ http' = IF res.exc # "none" THEN 500
                        ELSE IF res.entries = <<>> THEN 404 ELSE 200
             /\ processed' = IF res.exc = "none" /\ res.entries # <<>>
                             THEN Saved(res.entries) ELSE processed
    /\ UNCHANGED <<raw, textVars, sentVars, aggVars, mainVars, apiVars>>

NextLoad == process_reviews_endpoint

SpecLoad == InitLoad /\ [][NextLoad]_vars

----------------------------------------------------------------------------
(* Sentiment classification and aggregation as a state machine *)

InitSent ==
    /\ texts \in ListsOf(TextPool, MaxRows)
    /\ classifier \in [TextPool -> RawResults]
    /\ batch_size \in BatchSizes
    /\ batch_start = 0
    /\ all_results = <<>>
    /\ spc = "loaded"
    /\ sentiment = <<>>
    /\ sentiment_score = <<>>
    /\ metrics = NoMetrics
    /\ TextIdle
    /\ LoadIdle
    /\ AggIdle
    /\ MainIdle
    /\ ApiIdle

\* apply_sentiment up to the loop of transformer_sentiment.  A DataFrame
\* built from no entries has no columns: df["cleaned_content"] raises
\* KeyError.
BeginSentiment ==
    /\ spc = "loaded"
    /\ spc' = IF texts = <<>> THEN "KeyError" ELSE "batching"
    /\ batch_start' = 0
    /\ all_results' = <<>>
    /\ UNCHANGED <<texts, classifier, batch_size, sentiment, sentiment_score,
                   metrics, textVars, loadVars, aggVars, mainVars, apiVars>>

\* one round of the loop of transformer_sentiment
ClassifyBatch ==
    /\ spc = "batching"
    /\ batch_start < Len(texts)
    /\ all_results' = all_results \o sent_pipe(Batch(texts, batch_start, batch_size))
    /\ batch_start' = batch_start + batch_size
    /\ UNCHANGED <<texts, classifier, batch_size, spc, sentiment,
                   sentiment_score, metrics, textVars, loadVars, aggVars, mainVars,
                   apiVars>>

\* the rest of apply_sentiment, once transformer_sentiment has returned.
\* Assigning a column whose length is not the frame's raises ValueError.
LabelReviews ==
    /\ spc = "batching"
    /\ batch_start >= Len(texts)
    /\ IF Len(all_results) = Len(texts)
       THEN /\ sentiment' = [k \in DOMAIN all_results |-> MapLabel(all_results[k].label)]
            /\ sentiment_score' = [k \in DOMAIN all_results |-> MapScore(all_results[k].score)]
            /\ spc' = "labelled"
       ELSE /\ spc' = "ValueError"
            /\ UNCHANGED <<sentiment, sentiment_score>>
    /\ UNCHANGED <<texts, classifier, batch_size, batch_start, all_results, metrics,
                   textVars, loadVars, aggVars, mainVars, apiVars>>

\* metrics = sentiment_metrics(df)
SentimentMetrics ==
    /\ spc = "labelled"
    /\ metrics' = sentiment_metrics(sentiment)
    /\ spc' = "aggregated"
    /\ UNCHANGED <<texts, classifier, batch_size, batch_start, all_results, sentiment,
                   sentiment_score, textVars, loadVars, aggVars, mainVars, apiVars>>

NextSent == BeginSentiment \/ ClassifyBatch \/ LabelReviews \/ SentimentMetrics

SpecSent == InitSent /\ [][NextSent]_vars

----------------------------------------------------------------------------
(* sentiment_metrics called on a labelled frame *)

\* a column of n copies of x
Repeat(x, n) == [k \in 1..n |-> x]

\* a labelled frame of at most MaxTotal rows, given by how many rows carry
\* each label
InitCounts ==
    /\ \E p \in 0..MaxTotal : \E n \in 0..(MaxTotal - p) : \E u \in 0..(MaxTotal - p - n) :
         /\ sentiment = Repeat("positive", p) \o Repeat("negative", n)
                            \o Repeat("neutral", u)
         /\ texts = Repeat(<<"g","o","o","d">>, p + n + u)
         /\ sentiment_score = Repeat(Zero, p + n + u)
    /\ classifier = <<>>
    /\ batch_size = CodeBatchSize
    /\ batch_start = 0
    /\ all_results = <<>>
    /\ spc = "labelled"
    /\ metrics = NoMetrics
    /\ TextIdle
    /\ LoadIdle
    /\ AggIdle
    /\ MainIdle
    /\ ApiIdle

NextCounts == SentimentMetrics

SpecCounts == InitCounts /\ [][NextCounts]_vars

----------------------------------------------------------------------------
(* Aggregation of a corpus and of the same corpus in another order *)

InitAgg ==
    /\ corpus \in Corpora
    /\ permuted \in PermutationsOf(corpus)
    /\ rating_metrics = Unset
    /\ rating_metrics_permuted = Unset
    /\ sent_agg = Unset
    /\ sent_agg_permuted = Unset
    /\ TextIdle
    /\ LoadIdle
    /\ SentIdle
    /\ MainIdle
    /\ ApiIdle

CalculateMetrics ==
    /\ rating_metrics = Unset
    /\ rating_metrics' = calculate_metrics(corpus)
    /\ UNCHANGED <<corpus, permuted, rating_metrics_permuted, sent_agg,
                   sent_agg_permuted, textVars, loadVars, sentVars, mainVars, apiVars>>

CalculateMetricsPermuted ==
    /\ rating_metrics # Unset
    /\ rating_metrics_permuted = Unset
    /\ rating_metrics_permuted' = calculate_metrics(permuted)
    /\ UNCHANGED <<corpus, permuted, rating_metrics, sent_agg,
                   sent_agg_permuted, textVars, loadVars, sentVars, mainVars, apiVars>>

AggregateSentiment ==
    /\ rating_metrics_permuted # Unset
    /\ sent_agg = Unset
    /\ sent_agg' = aggregate_sentiment(corpus)
    /\ UNCHANGED <<corpus, permuted, rating_metrics, rating_metrics_permuted,
                   sent_agg_permuted, textVars, loadVars, sentVars, mainVars, apiVars>>

AggregateSentimentPermuted ==
    /\ sent_agg # Unset
    /\ sent_agg_permuted = Unset
    /\ sent_agg_permuted' = aggregate_sentiment(permuted)
    /\ UNCHANGED <<corpus, permuted, rating_metrics, rating_metrics_permuted,
                   sent_agg, textVars, loadVars, sentVars, mainVars, apiVars>>

NextAgg ==
    \/ CalculateMetrics
    \/ CalculateMetricsPermuted
    \/ AggregateSentiment
    \/ AggregateSentimentPermuted

SpecAgg == InitAgg /\ [][NextAgg]_vars

----------------------------------------------------------------------------
(* advanced_insights.main after sentiment_metrics *)

\* the call main makes next
StepIs(name) ==
    /\ spc = "aggregated"
    /\ done < Len(MainSteps)
    /\ MainSteps[done + 1] = name

\* keywords = keyword_extraction(df, top_n=50); each call of the capability
\* returns keywords or raises
KeywordExtraction ==
    /\ StepIs("keyword_extraction")
    /\ \E capability \in [Range(SentimentOrder) -> ExtractOutcomes] :
         LET res == keyword_extraction(texts, sentiment, capability)
         IN  /\ kw_calls' = res.calls
             /\ IF res.exc = "none"
                THEN /\ keywords' = res.keywords
                     /\ done' = done + 1
                     /\ spc' = spc
                ELSE /\ spc' = res.exc
                     /\ UNCHANGED <<keywords, done>>
    /\ UNCHANGED <<texts, classifier, batch_size, batch_start, all_results, sentiment,
                   sentiment_score, metrics, insights, nodes, html_file, json_file,
                   textVars, loadVars, aggVars, apiVars>>

\* insights = generate_insights(keywords)
GenerateInsights ==
    /\ StepIs("generate_insights")
    /\ insights' = generate_insights(keywords)
    /\ done' = done + 1
    /\ UNCHANGED <<keywords, kw_calls, nodes, html_file, json_file, textVars, loadVars,
                   sentVars, aggVars, apiVars>>

\* build_sunburst(df, metrics, keywords, app_id): the chart is written
BuildSunburst ==
    /\ StepIs("build_sunburst")
    /\ nodes' = build_sunburst(metrics, keywords)
    /\ html_file' = "written"
    /\ done' = done + 1
    /\ UNCHANGED <<keywords, kw_calls, insights, json_file, textVars, loadVars, sentVars,
                   aggVars, apiVars>>

\* save_results(metrics, keywords, insights, app_id)
SaveResults ==
    /\ StepIs("save_results")
    /\ json_file' = "written"
    /\ done' = done + 1
    /\ UNCHANGED <<keywords, kw_calls, insights, nodes, html_file, textVars, loadVars,
                   sentVars, aggVars, apiVars>>

\* a call of sent_pipe raises
ClassifyFails ==
    /\ spc = "batching"
    /\ batch_start < Len(texts)
    /\ spc' = "ClassifierError"
    /\ UNCHANGED <<texts, classifier, batch_size, batch_start, all_results, sentiment,
                   sentiment_score, metrics, textVars, loadVars, aggVars, mainVars,
                   apiVars>>

\* main(app_id) once load_reviews has returned the frame
InitMain ==
    /\ texts \in ListsOf(MainTexts, MaxRows)
    /\ classifier \in [MainTexts -> MainResults]
    /\ batch_size = CodeBatchSize
    /\ batch_start = 0
    /\ all_results = <<>>
    /\ spc = "loaded"
    /\ sentiment = <<>>
    /\ sentiment_score = <<>>
    /\ metrics = NoMetrics
    /\ MainIdle
    /\ TextIdle
    /\ LoadIdle
    /\ AggIdle
    /\ ApiIdle

NextMain ==
    \/ BeginSentiment
    \/ ClassifyBatch
    \/ ClassifyFails
    \/ LabelReviews
    \/ SentimentMetrics
    \/ KeywordExtraction
    \/ GenerateInsights
    \/ BuildSunburst
    \/ SaveResults

SpecMain == InitMain /\ [][NextMain]_vars

----------------------------------------------------------------------------
(* build_sunburst and generate_insights on given metrics and keywords *)

\* metrics of a labelled frame with at most MaxCount rows of each label, and
\* any keyword buckets
InitSunburst ==
    /\ \E p \in 0..MaxCount : \E n \in 0..MaxCount : \E u \in 0..MaxCount :
         /\ sentiment = Repeat("positive", p) \o Repeat("negative", n)
                            \o Repeat("neutral", u)
         /\ texts = Repeat(<<"g","o","o","d">>, p + n + u)
         /\ sentiment_score = Repeat(Zero, p + n + u)
    /\ metrics = sentiment_metrics(sentiment)
    /\ classifier = <<>>
    /\ batch_size = CodeBatchSize
    /\ batch_start = 0
    /\ all_results = <<>>
    /\ spc = "aggregated"
    /\ keywords \in [Range(SentimentOrder) -> KeywordBuckets]
    /\ kw_calls = <<>>
    /\ insights = <<>>
    /\ nodes = <<>>
    /\ html_file = "absent"
    /\ json_file = "absent"
    /\ done = 1
    /\ TextIdle
    /\ LoadIdle
    /\ AggIdle
    /\ ApiIdle

NextSunburst == GenerateInsights \/ BuildSunburst \/ SaveResults

SpecSunburst == InitSunburst /\ [][NextSunburst]_vars

----------------------------------------------------------------------------
(* The API: collect, extract, process, generate *)

InitApi ==
    /\ raw = [c \in Countries |-> File("absent", "na", <<>>)]
    /\ proc = Unset
    /\ skipped = 0
    /\ http = 0
    /\ processed = Absent
    /\ ApiIdle
    /\ TextIdle
    /\ SentIdle
    /\ AggIdle
    /\ MainIdle

\* POST /collect for one country: _collect_raw writes the raw file, or the
\* store answers AppNotFound
PostCollect ==
    /\ requests < MaxRequests
    /\ requests' = requests + 1
    /\ \E c \in Countries :
        \/ /\ \E feed \in Feeds : raw' = [raw EXCEPT ![c] = RawFile(feed)]
           /\ response' = Response("collect", 200, <<>>)
        \/ /\ response' = Response("collect", 404, <<>>)
           /\ UNCHANGED raw
    /\ UNCHANGED <<proc, skipped, http, processed, backups, ratings_html, metrics_summary,
                   sunburst_html, insights_json, textVars, sentVars, aggVars, mainVars>>

\* POST /extract for one country: analyze_app saves the reviews when some
\* review has a valid rating; save_reviews_to_file keeps the file that is
\* there as a backup
PostExtract ==
    /\ requests < MaxRequests
    /\ requests' = requests + 1
    /\ \E c \in Countries : \E feed \in Feeds \cup {<<>>} :
        IF HasValidRating(feed)
        THEN /\ raw[c].kind # "absent" => Len(backups[c]) < MaxBackups
             /\ backups' = BackedUp(raw, backups, c)
             /\ raw' = [raw EXCEPT ![c] = RawFile(feed)]
        ELSE UNCHANGED <<raw, backups>>
    /\ response' = Response("extract", 200, <<>>)
    /\ UNCHANGED <<proc, skipped, http, processed, ratings_html, metrics_summary,
                   sunburst_html, insights_json, textVars, sentVars, aggVars, mainVars>>

\* POST /process over the raw directory as it is: 404 for an empty result,
\* 500 when process_reviews raised, else the cleaned file is saved
PostProcess ==
    /\ requests < MaxRequests
    /\ requests' = requests + 1
    /\ \E files \in GlobPaths(raw, backups) :
         LET res == process_paths(files, raw, backups)
             status == IF res.exc # "none" THEN 500
                       ELSE IF res.entries = <<>> THEN 404 ELSE 200
         IN  /\ proc' = IF res.exc = "none" THEN Returned(res.entries) ELSE Raised(res.exc)
             /\ skipped' = res.skipped
             /\ http' = status
             /\ processed' = IF status = 200 THEN Saved(res.entries) ELSE processed
             /\ response' = Response("process", status,
                                     IF status = 200 THEN res.entries ELSE <<>>)
    /\ UNCHANGED <<raw, backups, ratings_html, metrics_summary, sunburst_html,
                   insights_json, textVars, sentVars, aggVars, mainVars>>

\* POST /visualization/{app_id}: _generate_metrics_html returns the chart
\* that is there, else computes the metrics of the cleaned file and writes
\* the chart, the summary and the CSV
PostVisualization ==
    /\ requests < MaxRequests
    /\ requests' = requests + 1
    /\ IF ratings_html.exists
       THEN /\ response' = Response("visualization", 200, ratings_html.content)
            /\ UNCHANGED <<ratings_html, metrics_summary>>
       ELSE IF ~processed.exists
       THEN /\ response' = Response("visualization", 404, <<>>)
            /\ UNCHANGED <<ratings_html, metrics_summary>>
       ELSE IF MetricsOf(processed.entries).exc # "none"
       THEN /\ response' = Response("visualization", 500, <<>>)
            /\ UNCHANGED <<ratings_html, metrics_summary>>
       ELSE /\ ratings_html' = StoredFile(MetricsOf(processed.entries).v)
            /\ metrics_summary' = StoredFile(MetricsOf(processed.entries).v)
            /\ response' = Response("visualization", 200, MetricsOf(processed.entries).v)
    /\ UNCHANGED <<raw, proc, skipped, http, processed, backups, sunburst_html,
                   insights_json, textVars, sentVars, aggVars, mainVars>>

\* POST /sunburst/{app_id}: _generate_sunburst_html returns the chart that is
\* there, else runs advanced_insights.main, which writes the chart and the
\* insights unless the cleaned file is missing or an external call fails
PostSunburst ==
    /\ requests < MaxRequests
    /\ requests' = requests + 1
    /\ IF sunburst_html.exists
       THEN /\ response' = Response("sunburst", 200, sunburst_html.content)
            /\ UNCHANGED <<sunburst_html, insights_json>>
       ELSE IF ~processed.exists
       THEN /\ response' = Response("sunburst", 500, <<>>)
            /\ UNCHANGED <<sunburst_html, insights_json>>
       ELSE \/ /\ sunburst_html' = StoredFile(SunburstOf(processed.entries))
               /\ insights_json' = StoredFile(SunburstOf(processed.entries))
               /\ response' = Response("sunburst", 200, SunburstOf(processed.entries))
            \/ /\ response' = Response("sunburst", 500, <<>>)
               /\ UNCHANGED <<sunburst_html, insights_json>>
    /\ UNCHANGED <<raw, proc, skipped, http, processed, backups, ratings_html,
                   metrics_summary, textVars, sentVars, aggVars, mainVars>>

NextApi ==
    \/ PostCollect
    \/ PostExtract
    \/ PostProcess
    \/ PostVisualization
    \/ PostSunburst

SpecApi == InitApi /\ [][NextApi]_vars

----------------------------------------------------------------------------
(* Properties of clean_text *)

\* C1: clean_text is idempotent: cleaning the cleaned text once more
\* returns the cleaned text unchanged.
C1_Idempotent ==
    recleaned # Unset => recleaned = cleaned

\* C1 witness: a text that cleaning changed, cleaned twice
C1_Witness ==
    /\ recleaned.exc = "none"
    /\ cleaned.v # <<>>
    /\ cleaned.v # text.v

\* a URL with one of the given schemes starts at i: scheme://non-whitespace
SchemeUrlAt(s, i, schemes) ==
    \E p \in schemes :
        /\ HasPrefix(s, i, p \o <<":","/","/">>)
        /\ i + Len(p) + 3 <= Len(s)
        /\ ~IsSpace(s[i + Len(p) + 3])

\* www.non-whitespace starts at i
WwwUrlAt(s, i) ==
    /\ HasPrefix(s, i, <<"w","w","w",".">>)
    /\ i + 4 <= Len(s)
    /\ ~IsSpace(s[i + 4])

\* the non-empty runs of letters and digits of s that start at i
SchemesAt(s, i) ==
    {SubSeq(s, i, k) : k \in {k \in i..Len(s) :
        \A j \in i..k : IsWord(s[j]) /\ s[j] # "_"}}

HttpSchemes == {<<"h","t","t","p">>, <<"h","t","t","p","s">>}

HttpUrlAt(s, i) == SchemeUrlAt(s, i, HttpSchemes) \/ WwwUrlAt(s, i)
AnyUrlAt(s, i) == SchemeUrlAt(s, i, SchemesAt(s, i)) \/ WwwUrlAt(s, i)

\* s with every character of every URL (from its start to the end of its
\* run of non-whitespace) blanked
BlankUrls(s, UrlAt(_, _)) ==
    [j \in 1..Len(s) |->
        IF \E i \in 1..j : UrlAt(s, i) /\ \A k \in i..j : ~IsSpace(s[k])
        THEN " " ELSE s[j]]

\* the output when no URL contributes a token
WithoutUrls(s, UrlAt(_, _)) ==
    Join(RemoveStopwords(Split(NonWordSub(BlankUrls(Lower(s), UrlAt)))))

\* C2 (as amended): every substring of the lowercased input of the form
\* http://run, https://run or www.run contributes no token to the output,
\* and the scenario sentence normalizes to "great app visit now".
C2_HttpUrlsStripped ==
    (cleaned # Unset /\ text.t = "str") =>
        /\ cleaned = Returned(WithoutUrls(text.v, HttpUrlAt))
        /\ text.v = ScenarioText => cleaned.v = ScenarioClean

\* C2 (as claimed): the same for scheme://run with any scheme.
C2_AnySchemeUrlsStripped ==
    (cleaned # Unset /\ text.t = "str") =>
        /\ cleaned = Returned(WithoutUrls(text.v, AnyUrlAt))
        /\ text.v = ScenarioText => cleaned.v = ScenarioClean

\* C2 witness: the scenario sentence, cleaned
C2_Witness ==
    /\ text = PyStr(ScenarioText)
    /\ cleaned = Returned(ScenarioClean)

\* the n-th smallest element of a set of numbers
NthOf(S, n) == CHOOSE x \in S : Cardinality({y \in S : y < x}) = n - 1

\* the whitespace-separated tokens of s, in order
TokenStarts(s) ==
    {i \in 1..Len(s) : ~IsSpace(s[i]) /\ (i = 1 \/ IsSpace(s[i - 1]))}
TokenAt(s, i) ==
    SubSeq(s, i, CHOOSE j \in i..Len(s) :
        /\ \A k \in i..j : ~IsSpace(s[k])
        /\ j = Len(s) \/ IsSpace(s[j + 1]))
TokensOf(s) ==
    [n \in 1..Cardinality(TokenStarts(s)) |-> TokenAt(s, NthOf(TokenStarts(s), n))]

\* the tokens outside the stopword set, in their original order
Surviving(tokens) ==
    LET keep == {n \in 1..Len(tokens) : tokens[n] \notin STOPWORDS}
    IN  [m \in 1..Cardinality(keep) |-> tokens[NthOf(keep, m)]]

\* C3: clean_text is total and its output canonical: None and "" give ""
\* without error; any other string gives the non-stopword tokens of the
\* lowercased, URL- and punctuation-stripped text, in order, joined by
\* exactly one space with no leading or trailing space.
C3_TotalCanonical ==
    cleaned # Unset =>
        /\ cleaned.exc = "none"
        /\ Falsy(text) => cleaned.v = <<>>
        /\ text.t = "str" =>
            LET out == cleaned.v
                stripped == NonWordSub(UrlSub(Lower(text.v)))
            IN  /\ out # <<>> => out[1] # " " /\ out[Len(out)] # " "
                /\ \A i \in 1..Len(out) - 1 : ~(out[i] = " " /\ out[i + 1] = " ")
                /\ \A i \in 1..Len(out) : out[i] = " " \/ IsWord(out[i])
                /\ TokensOf(out) = Surviving(TokensOf(stripped))

\* C3 witness: a sentence with a stopword, punctuation, tabs and a trailing
\* space, cleaned to two tokens
C3_Witness ==
    /\ text = PyStr(<<"T","h","e","\t","\n","U","I","_","2"," ","i","s"," ","O","K","."," ">>)
    /\ cleaned = Returned(<<"u","i","_","2"," ","o","k">>)

----------------------------------------------------------------------------
(* Properties of process_reviews and POST /process *)

\* a record process_reviews is to emit: an object whose title and content
\* are text or absent
GoodRecord(r) ==
    /\ r.kind = "dict"
    /\ GetOr(r.title, PyNone).t \in {"str", "none"}
    /\ GetOr(r.content, PyNone).t \in {"str", "none"}

\* a file that is not there, or a JSON object whose reviews are a list
GoodFile(f) ==
    \/ f.kind = "absent"
    \/ f.kind = "object" /\ f.rv \in {"missing", "list"}

\* the entries of the good records of one file, in the file's order
GoodEntries(f, country) ==
    LET good == {n \in 1..Len(f.items) : GoodRecord(f.items[n])}
    IN  [m \in 1..Cardinality(good) |->
            cleaned_entry(f.items[NthOf(good, m)], country)]

RECURSIVE ExpectedEntries(_, _)
ExpectedEntries(files, disk) ==
    IF files = <<>> THEN <<>>
    ELSE GoodEntries(disk[Head(files)], Head(files))
         \o ExpectedEntries(Tail(files), disk)

\* C4: with every file well-formed, process_reviews does not raise whatever
\* the records are: each malformed record (not an object, or with a title
\* or content that is not text) is skipped and logged and every other
\* record of every file is emitted.
C4_MalformedRecordSkipped ==
    (proc # Unset /\ \A c \in Countries : GoodFile(raw[c])) =>
        /\ proc.exc = "none"
        /\ \E files \in Globs(raw) : proc.v = ExpectedEntries(files, raw)

\* C5: with every record well-formed, process_reviews does not raise
\* whatever the files are: an unreadable or malformed file yields no
\* entries and the entries of the other files are emitted.
C5_MalformedFileSkipped ==
    (proc # Unset /\ \A c \in Countries :
        \A n \in 1..Len(raw[c].items) : GoodRecord(raw[c].items[n])) =>
        /\ proc.exc = "none"
        /\ \E files \in Globs(raw) : proc.v = ExpectedEntries(files, raw)

\* C6: when at least one raw file exists for the app id, POST /process does
\* not answer not-found.
C6_NotFoundOnlyWithoutFiles ==
    (http # 0 /\ \E c \in Countries : raw[c].kind # "absent") => http # 404

----------------------------------------------------------------------------
(* Properties of apply_sentiment, transformer_sentiment, sentiment_metrics *)

Sentiments == {"positive", "negative", "neutral"}

Labelled == spc \in {"labelled", "aggregated"}

\* C7: every review gets exactly one of positive, negative, neutral, decided
\* by exact match of the lowercased raw label: "positive" gives positive,
\* "neutral" gives neutral, every other label gives negative; no review is
\* dropped or left without a label.
C7_LabelMapping ==
    /\ spc # "ValueError"
    /\ Labelled =>
        /\ Len(sentiment) = Len(texts)
        /\ \A k \in DOMAIN texts :
            LET low == Lower(classifier[texts[k]].label)
            IN  /\ sentiment[k] \in Sentiments
                /\ low = <<"p","o","s","i","t","i","v","e">> => sentiment[k] = "positive"
                /\ low = <<"n","e","u","t","r","a","l">> => sentiment[k] = "neutral"
                /\ low \notin {<<"p","o","s","i","t","i","v","e">>,
                               <<"n","e","u","t","r","a","l">>}
                       => sentiment[k] = "negative"

\* C7 witness: a mixed-case "Positive" labelled positive and an unknown
\* label labelled negative in one run
C7_Witness ==
    /\ spc = "labelled"
    /\ \E k \in DOMAIN texts :
        /\ classifier[texts[k]].label = <<"P","o","s","i","t","i","v","e">>
        /\ sentiment[k] = "positive"
    /\ \E k \in DOMAIN texts :
        /\ classifier[texts[k]].label = <<"L","A","B","E","L","_","2">>
        /\ sentiment[k] = "negative"

\* C8: the stored sentiment_score is the classifier's score whenever that
\* score is a number (integer or floating point) and 0.0 when it is not.
C8_NumericScoreKept ==
    Labelled =>
        \A k \in DOMAIN texts :
            LET score == classifier[texts[k]].score
            IN  sentiment_score[k] =
                    IF score.t \in {"int", "float"} THEN score ELSE Zero

\* C9: whatever the batch size, the results collected are one per text, in
\* input order, equal to classifying the whole sequence in one call, and
\* the label stored for review k is the one of text k.
C9_BatchingPreservesResults ==
    /\ spc # "ValueError"
    /\ spc = "batching" =>
        all_results = sent_pipe(SubSeq(texts, 1, Min(batch_start, Len(texts))))
    /\ Labelled =>
        /\ Len(all_results) = Len(texts)
        /\ all_results = sent_pipe(texts)
        /\ \A k \in DOMAIN texts :
            sentiment[k] = MapLabel(classifier[texts[k]].label)

\* C9 witness: three texts with two different results labelled in batches
\* of two, the last batch short
C9_Witness ==
    /\ spc = "labelled"
    /\ Len(texts) = 3
    /\ batch_size = 2
    /\ texts[2] # texts[3]
    /\ classifier[texts[2]] # classifier[texts[3]]

RECURSIVE SumOf(_)
SumOf(f) ==
    IF DOMAIN f = {} THEN 0
    ELSE LET l == CHOOSE l \in DOMAIN f : TRUE
         IN  f[l] + SumOf([m \in DOMAIN f \ {l} |-> f[m]])

\* C10: for a non-empty labelled corpus the per-label counts sum to
\* total_reviews and every key of counts is positive, negative or neutral.
C10_CountsSumToTotal ==
    (spc = "aggregated" /\ Len(texts) > 0) =>
        /\ metrics.total_reviews = Len(texts)
        /\ SumOf(metrics.counts) = metrics.total_reviews
        /\ DOMAIN metrics.counts \subseteq Sentiments

\* C10 witness: three reviews with two different labels, aggregated
C10_Witness ==
    /\ spc = "aggregated"
    /\ metrics.total_reviews = 3
    /\ Cardinality(DOMAIN metrics.counts) = 2

\* C11: for a non-empty labelled corpus every percentage is 100 * count /
\* total rounded to two decimals (the hundredth nearest to it, the even
\* one at a tie), and the percentages sum to within 0.01 of 100.
C11_PercentagesRounded ==
    (spc = "aggregated" /\ Len(sentiment) > 0) =>
        LET total == metrics.total_reviews
            Off(l) == metrics.percentages[l] * total - 10000 * metrics.counts[l]
        IN  /\ DOMAIN metrics.percentages = DOMAIN metrics.counts
            /\ \A l \in DOMAIN metrics.counts :
                /\ 2 * Off(l) <= total
                /\ 2 * Off(l) >= 0 - total
                /\ (2 * Off(l) = total \/ 2 * Off(l) = 0 - total)
                       => metrics.percentages[l] % 2 = 0
            /\ SumOf(metrics.percentages) \in 9999..10001

\* C11 witness: 32 reviews, one positive and one negative: 3.125 percent is
\* a tie and rounds to 3.12, and the three percentages sum to 99.99
C11_Witness ==
    /\ spc = "aggregated"
    /\ metrics.total_reviews = 32
    /\ Cardinality(DOMAIN metrics.counts) = 3
    /\ metrics.counts["positive"] = 1
    /\ metrics.percentages["positive"] = 312
    /\ metrics.counts["negative"] = 1
    /\ SumOf(metrics.percentages) = 9999

EmptyMetrics == [total_reviews |-> 0, counts |-> <<>>, percentages |-> <<>>]

\* C12: aggregating zero reviews raises no error and yields the empty
\* metrics object (total 0, no counts, no percentages), both when
\* sentiment_metrics is called on an empty frame and when load_reviews,
\* apply_sentiment, sentiment_metrics run on a cleaned file with no entries.
C12_EmptyCorpusEmptyMetrics ==
    Len(texts) = 0 =>
        /\ spc \notin {"KeyError", "ValueError"}
        /\ spc = "aggregated" => metrics = EmptyMetrics

----------------------------------------------------------------------------
(* Properties of calculate_metrics and of aggregation *)

IdsOf(rows) == {rows[k].id : k \in DOMAIN rows}

\* C13: aggregation is order-independent: for a corpus and any permutation
\* of it sentiment_metrics returns the same total, counts and percentages,
\* calculate_metrics returns the same total_reviews, rating_counts and
\* average_rating, and every sentiment bucket holds the same set of reviews.
C13_OrderIndependent ==
    /\ rating_metrics_permuted # Unset => rating_metrics_permuted = rating_metrics
    /\ sent_agg_permuted # Unset =>
        /\ sent_agg_permuted.v.metrics = sent_agg.v.metrics
        /\ \A l \in Range(SentimentOrder) :
            IdsOf(sent_agg_permuted.v.buckets[l]) = IdsOf(sent_agg.v.buckets[l])

\* C13 witness: three reviews aggregated in another order, a review without
\* a numeric rating before rated ones, two of them sharing a label whose
\* bucket lists them in the other order
C13_Witness ==
    /\ sent_agg_permuted # Unset
    /\ Len(corpus) = 3
    /\ permuted # corpus
    /\ ~IsNumeric(corpus[1])
    /\ rating_metrics.exc = "none"
    /\ rating_metrics.v.total_reviews = 2
    /\ \E l \in Range(SentimentOrder) :
        /\ Len(sent_agg.v.buckets[l]) = 2
        /\ sent_agg_permuted.v.buckets[l] # sent_agg.v.buckets[l]

\* the value of a numeric rating in tenths
Tenths(rating) == IF rating.t = "int" THEN 10 * rating.n ELSE rating.n

\* a review whose rating is numeric and within [1,5]
InRange(r) ==
    /\ IsNumeric(r)
    /\ r.rating.finite
    /\ Tenths(r.rating) >= 10
    /\ Tenths(r.rating) <= 50

RECURSIVE SumTenths(_)
SumTenths(rows) ==
    IF rows = <<>> THEN 0 ELSE Tenths(Head(rows).rating) + SumTenths(Tail(rows))

\* C18: calculate_metrics considers only the reviews whose rating is numeric
\* and within [1,5] and ignores all others without an error: total_reviews
\* is the number of such reviews and average_rating the mean of their
\* ratings, 0 if there are none.
C18_OnlyRatingsInRange ==
    rating_metrics # Unset =>
        LET counted == SelectSeq(corpus, InRange)
        IN  /\ rating_metrics.exc = "none"
            /\ rating_metrics.v.total_reviews = Len(counted)
            /\ rating_metrics.v.average_rating =
                   IF Len(counted) = 0 THEN Ratio(0, 1)
                   ELSE Ratio(SumTenths(counted), 10 * Len(counted))

\* C19: for every input list calculate_metrics raises no error and returns
\* rating_counts with exactly the keys 1..5; for the empty list it returns
\* average_rating 0, all five counts 0 and total_reviews 0.
C19_AlwaysFiveCounts ==
    rating_metrics # Unset =>
        /\ rating_metrics.exc = "none"
        /\ DOMAIN rating_metrics.v.rating_counts = 1..5
        /\ corpus = <<>> =>
            /\ rating_metrics.v.average_rating = Ratio(0, 1)
            /\ rating_metrics.v.total_reviews = 0
            /\ \A r \in 1..5 : rating_metrics.v.rating_counts[r] = 0

----------------------------------------------------------------------------
(* Properties of keyword_extraction, build_sunburst, generate_insights, main *)

Extracting == done >= 1 \/ spc = "ExtractorError"

\* C14: for each label whose joined blob is empty (no review carries the
\* label, or every review that does has an empty cleaned_content) the
\* capability is not called and the bucket of the label is empty.
C14_EmptyBlobNotExtracted ==
    Extracting =>
        \A label \in Range(SentimentOrder) :
            Join(TextsWith(texts, sentiment, label)) = <<>> =>
                /\ \A c \in DOMAIN kw_calls : kw_calls[c].label # label
                /\ done >= 1 => keywords[label] = <<>>

\* C20: when the sentiment classification call or the keyword extraction
\* call of a run of main fails, the run stops with that failure and has
\* written neither the sunburst HTML nor the insights JSON: a file is
\* written only after both external calls have succeeded.
C20_FailurePersistsNothing ==
    /\ spc \in {"ClassifierError", "ExtractorError"} =>
        /\ html_file = "absent"
        /\ json_file = "absent"
        /\ ~ENABLED NextMain
    /\ (html_file = "written" \/ json_file = "written") =>
        /\ spc = "aggregated"
        /\ all_results = sent_pipe(texts)
        /\ DOMAIN keywords = Range(SentimentOrder)

\* C20 witness: the second call of the keyword extractor fails after the
\* classifier and the first call have succeeded
C20_Witness ==
    /\ spc = "ExtractorError"
    /\ Len(kw_calls) = 2
    /\ Len(all_results) = 3
    /\ html_file = "absent"
    /\ json_file = "absent"

Charted == html_file = "written"

\* C15: the node list of build_sunburst never holds a sentiment-bucket node
\* (a child of the root) of weight 0, and the parent label of every node but
\* the root is the label of an earlier node.
C15_NoEmptyBucketParentsFirst ==
    Charted =>
        /\ \A k \in DOMAIN nodes : nodes[k].parent = RootLabel => nodes[k].value # 0
        /\ \A k \in 2..Len(nodes) : \E j \in 1..(k - 1) : nodes[j].label = nodes[k].parent

\* C15 witness: a chart of a corpus without positive reviews whose positive
\* bucket has keywords, and with negative reviews and keywords
C15_Witness ==
    /\ Charted
    /\ CountOf(metrics, "positive") = 0
    /\ KwGet(keywords, "positive") # <<>>
    /\ CountOf(metrics, "negative") > 0
    /\ KwGet(keywords, "negative") # <<>>
    /\ Len(nodes) > 2

BucketLabel(label) ==
    CASE label = "positive" -> <<"P","o","s","i","t","i","v","e">>
      [] label = "negative" -> <<"N","e","g","a","t","i","v","e">>
      [] label = "neutral" -> <<"N","e","u","t","r","a","l">>

\* the nodes a label contributes: none without reviews, else the bucket
\* node and at most 50 keywords
SizeOf(label) ==
    IF CountOf(metrics, label) = 0 THEN 0
    ELSE 1 + Min(50, Len(KwGet(keywords, label)))

\* C16: build_sunburst emits the root first, weighted total_reviews, then
\* for positive, negative, neutral in this order, when the count is not 0,
\* the bucket node (parent the root, weight the count) followed at once by
\* at most 50 keyword nodes in bucket order (parent the bucket node, weight
\* round(score * 100, 2)); a label with count 0 contributes nothing.
C16_SunburstLayout ==
    Charted =>
        LET order == <<"positive", "negative", "neutral">>
            StartOf(i) == 2 + (IF i > 1 THEN SizeOf(order[1]) ELSE 0)
                            + (IF i > 2 THEN SizeOf(order[2]) ELSE 0)
        IN  /\ nodes[1] = Node(<<"R","e","v","i","e","w","s">>, <<>>, 100 * metrics.total_reviews)
            /\ Len(nodes) = StartOf(3) + SizeOf(order[3]) - 1
            /\ \A i \in 1..3 :
                SizeOf(order[i]) > 0 =>
                    /\ nodes[StartOf(i)] =
                           Node(BucketLabel(order[i]), <<"R","e","v","i","e","w","s">>,
                                100 * metrics.counts[order[i]])
                    /\ \A k \in 1..(SizeOf(order[i]) - 1) :
                        LET kw == keywords[order[i]][k]
                            node == nodes[StartOf(i) + k]
                        IN  /\ node.label = kw[1]
                            /\ node.parent = BucketLabel(order[i])
                            /\ 10 * node.value - kw[2] < 5
                            /\ kw[2] - 10 * node.value < 5

\* C16 witness: no positive review but positive keywords, negative reviews
\* with 51 keywords of which 50 are charted, neutral reviews with 2 keywords
C16_Witness ==
    /\ Charted
    /\ CountOf(metrics, "positive") = 0
    /\ Len(KwGet(keywords, "positive")) = 2
    /\ CountOf(metrics, "negative") = 2
    /\ Len(KwGet(keywords, "negative")) = 51
    /\ CountOf(metrics, "neutral") = 1
    /\ Len(KwGet(keywords, "neutral")) = 2
    /\ Len(nodes) = 55
    /\ nodes[2].label = <<"N","e","g","a","t","i","v","e">>
    /\ nodes[53].label = <<"N","e","u","t","r","a","l">>

\* a rule fires when one of the first 50 negative keywords equals one of its
\* triggers
Fires(rule) ==
    \E k \in 1..Min(50, Len(KwGet(keywords, "negative"))) :
        keywords["negative"][k][1] \in Range(rule.triggers)

RuleOf(message) == CHOOSE r \in DOMAIN Rules : Rules[r].message = message

\* C17: generate_insights returns the messages of exactly the rules of which
\* a trigger equals (case-sensitive, whole keyword) one of the first 50
\* negative keywords, in rule order: pricing, stability, authentication,
\* advertising, performance, streaming; the fallback message is returned if
\* and only if no rule fired; crash and login give stability then
\* authentication.
C17_InsightRules ==
    insights # <<>> =>
        /\ \A r \in DOMAIN Rules :
            Rules[r].message \in Range(insights) <=> Fires(Rules[r])
        /\ Fallback \in Range(insights) <=> \A r \in DOMAIN Rules : ~Fires(Rules[r])
        /\ Range(insights) \subseteq {Rules[r].message : r \in DOMAIN Rules} \cup {Fallback}
        /\ Fallback \in Range(insights) => Len(insights) = 1
        /\ \A a, b \in DOMAIN insights :
            (a < b /\ Fallback \notin Range(insights)) =>
                RuleOf(insights[a]) < RuleOf(insights[b])
        /\ [r \in DOMAIN Rules |-> Rules[r].triggers[1]] =
               <<<<"p","r","i","c","e">>, <<"b","u","g">>, <<"l","o","g","i","n">>, <<"a","d","s">>, <<"s","l","o","w">>, <<"y","o","u","t","u","b","e">>>>
        /\ KwGet(keywords, "negative") = <<Keyword(Crash, 73456), Keyword(Login, 51234)>>
               => insights = <<StabilityRule.message, AuthenticationRule.message>>

\* C17 witness: the negative keywords slow, ads, price give the pricing,
\* advertising and performance messages in rule order
C17_Witness ==
    /\ Len(KwGet(keywords, "negative")) = 3
    /\ keywords["negative"][3][1] = Price
    /\ insights = <<PricingRule.message, AdvertisingRule.message, PerformanceRule.message>>

\* C23: for every input list the result of calculate_metrics has
\* sum(rating_counts.values()) = total_reviews, so that the percentages
\* 100 * count / total_reviews of save_metrics add up to 100 when
\* total_reviews > 0, and average_rating lies in [1,5] when total_reviews > 0.
C23_CountsSumAverageInRange ==
    (rating_metrics # Unset /\ rating_metrics.exc = "none") =>
        LET res == rating_metrics.v
        IN  /\ SumOf(res.rating_counts) = res.total_reviews
            /\ res.total_reviews > 0 =>
                /\ SumOf([r \in DOMAIN res.rating_counts |-> 100 * res.rating_counts[r]])
                       = 100 * res.total_reviews
                /\ res.average_rating.num >= res.average_rating.den
                /\ res.average_rating.num <= 5 * res.average_rating.den

\* C24: the labels of the node list of build_sunburst are pairwise distinct
\* for any metrics and keyword buckets: a keyword that occurs in two buckets,
\* or equals a bucket label or the root label, does not give two nodes with
\* one label.
C24_LabelsDistinct ==
    Charted =>
        \A a, b \in DOMAIN nodes : nodes[a].label = nodes[b].label => a = b

----------------------------------------------------------------------------
(* Properties of the API *)

\* C21: analytics are recomputed on every invocation: after any sequence of
\* collect, process and generate requests, a generate request (POST
\* /visualization or POST /sunburst) that succeeds returns and persists the
\* results computed from the cleaned review file as it is at that moment,
\* never results of an earlier invocation on older data.
C21_GeneratedFromCurrentData ==
    /\ (response.req = "visualization" /\ response.status = 200) =>
        /\ processed.exists
        /\ response.body = MetricsOf(processed.entries).v
        /\ ratings_html = StoredFile(MetricsOf(processed.entries).v)
        /\ metrics_summary = StoredFile(MetricsOf(processed.entries).v)
    /\ (response.req = "sunburst" /\ response.status = 200) =>
        /\ processed.exists
        /\ response.body = SunburstOf(processed.entries)
        /\ sunburst_html = StoredFile(SunburstOf(processed.entries))
        /\ insights_json = StoredFile(SunburstOf(processed.entries))

\* C22: after any sequence of collect, extract and process operations the
\* corpus process_reviews returns draws on at most one raw file per country,
\* so each (country, review id) pair occurs at most once in the cleaned
\* entries.
C22_OneFilePerCountry ==
    (response.req = "process" /\ response.status = 200) =>
        /\ \A c \in Countries :
            Cardinality({p \in StoredPaths(raw, backups) : p.country = c}) <= 1
        /\ \A a, b \in DOMAIN proc.v :
            (proc.v[a].country = proc.v[b].country /\ proc.v[a].id = proc.v[b].id)
                => a = b

====
